---- MODULE Spec2Model ----
(***************************************************************************)
(* Model of scripts/database_config_fix.py: the DatabaseConfigFixer class  *)
(* and the command-line entry point main().                                *)
(*                                                                         *)
(* Python values are modelled as follows.                                  *)
(*   str   a sequence of one-character strings                             *)
(*   int   an integer                                                      *)
(*   dict  a sequence of <<key, value>> pairs with distinct keys, in       *)
(*         insertion order (Python dicts keep insertion order, but compare *)
(*         without regard to it)                                           *)
(* A value stored in a dict is tagged with its Python type:                *)
(*   [t |-> "str", v |-> s], [t |-> "int", v |-> n],                       *)
(*   [t |-> "map", v |-> d], [t |-> "null", v |-> 0]                       *)
(* A call that may raise returns [ok |-> TRUE, v |-> result] or            *)
(* [ok |-> FALSE, v |-> <<>>].                                             *)
(*                                                                         *)
(* The inputs are configuration files whose top level is a mapping, with   *)
(* str, int, null and one level of nested mapping as values, over the      *)
(* characters of Ascii; ints are not negative.  original_config is a       *)
(* shallow copy, and fix_database_config only assigns to top-level keys of *)
(* config, so the copy keeps the loaded values: dicts are values here.     *)
(***************************************************************************)
EXTENDS Integers, Sequences, FiniteSets, TLC

\* ------------------------------------------------------------------------
\* Characters and strings
\* ------------------------------------------------------------------------

\* The characters the modelled inputs use, in ASCII order.
Ascii ==
    <<" ", "\"", "#", "'", ".", "/",
      "0", "1", "2", "3", "4", "5", "6", "7", "8", "9",
      ":", "=", "@",
      "A", "B", "C", "D", "E", "F", "G", "H", "I", "J", "K", "L", "M",
      "N", "O", "P", "Q", "R", "S", "T", "U", "V", "W", "X", "Y", "Z",
      "_",
      "a", "b", "c", "d", "e", "f", "g", "h", "i", "j", "k", "l", "m",
      "n", "o", "p", "q", "r", "s", "t", "u", "v", "w", "x", "y", "z">>

Digits == <<"0", "1", "2", "3", "4", "5", "6", "7", "8", "9">>

LowerCase == <<"a","b","c","d","e","f","g","h","i","j","k","l","m","n","o","p","q","r","s","t","u","v","w","x","y","z">>

UpperCase == <<"A","B","C","D","E","F","G","H","I","J","K","L","M","N","O","P","Q","R","S","T","U","V","W","X","Y","Z">>

Ord(c) == CHOOSE i \in DOMAIN Ascii : Ascii[i] = c

IsDigit(c) == \E i \in DOMAIN Digits : Digits[i] = c

DigitVal(c) == (CHOOSE i \in DOMAIN Digits : Digits[i] = c) - 1

IsLower(c) == \E i \in DOMAIN LowerCase : LowerCase[i] = c

IsUpper(c) == \E i \in DOMAIN UpperCase : UpperCase[i] = c

\* str.upper() on one character
UpperChar(c) ==
    IF IsLower(c) THEN UpperCase[CHOOSE i \in DOMAIN LowerCase : LowerCase[i] = c]
    ELSE c

\* str.lower() on one character
LowerChar(c) ==
    IF IsUpper(c) THEN LowerCase[CHOOSE i \in DOMAIN UpperCase : UpperCase[i] = c]
    ELSE c

\* str.upper()
Upper(s) == [i \in DOMAIN s |-> UpperChar(s[i])]

\* str.lower()
Lower(s) == [i \in DOMAIN s |-> LowerChar(s[i])]

\* Python  sub in s
Contains(s, sub) ==
    \E i \in 1..(Len(s) - Len(sub) + 1) : SubSeq(s, i, i + Len(sub) - 1) = sub

\* s.startswith(sub)
StartsWith(s, sub) == Len(s) >= Len(sub) /\ SubSeq(s, 1, Len(sub)) = sub

\* 1-based index of the first occurrence of character c in s, 0 when absent
Find(s, c) ==
    IF \E i \in DOMAIN s : s[i] = c
    THEN CHOOSE i \in DOMAIN s : s[i] = c /\ \A j \in 1..(i - 1) : s[j] # c
    ELSE 0

\* 1-based index of the last occurrence of character c in s, 0 when absent
RFind(s, c) ==
    IF \E i \in DOMAIN s : s[i] = c
    THEN CHOOSE i \in DOMAIN s : s[i] = c /\ \A j \in (i + 1)..Len(s) : s[j] # c
    ELSE 0

\* s.split(c): the list of the segments of s between occurrences of c
RECURSIVE Split(_, _)
Split(s, c) ==
    LET i == Find(s, c)
    IN  IF i = 0 THEN <<s>>
        ELSE <<SubSeq(s, 1, i - 1)>> \o Split(SubSeq(s, i + 1, Len(s)), c)

\* s.lstrip(chars), chars a set of characters
RECURSIVE LStrip(_, _)
LStrip(s, chars) ==
    IF s # <<>> /\ Head(s) \in chars THEN LStrip(Tail(s), chars) ELSE s

\* s.rstrip(chars)
RECURSIVE RStrip(_, _)
RStrip(s, chars) ==
    IF s # <<>> /\ s[Len(s)] \in chars THEN RStrip(SubSeq(s, 1, Len(s) - 1), chars)
    ELSE s

\* s.strip(chars)
Strip(s, chars) == RStrip(LStrip(s, chars), chars)

Whitespace == {" "}

Raise == [ok |-> FALSE, v |-> <<>>]

Return(x) == [ok |-> TRUE, v |-> x]

IsDigits(s) == s # <<>> /\ \A i \in DOMAIN s : IsDigit(s[i])

RECURSIVE DecimalValue(_)
DecimalValue(s) ==
    IF s = <<>> THEN 0
    ELSE 10 * DecimalValue(SubSeq(s, 1, Len(s) - 1)) + DigitVal(s[Len(s)])

\* int(s) for a str s: surrounding whitespace is ignored, anything but a
\* run of decimal digits raises ValueError
IntOfStr(s) ==
    LET d == Strip(s, Whitespace)
    IN  IF IsDigits(d) THEN Return(DecimalValue(d)) ELSE Raise

\* str(n) for an int n >= 0
RECURSIVE StrOfInt(_)
StrOfInt(n) ==
    IF n < 10 THEN <<Digits[n + 1]>>
    ELSE StrOfInt(n \div 10) \o <<Digits[(n % 10) + 1]>>

\* ------------------------------------------------------------------------
\* Python values and dicts
\* ------------------------------------------------------------------------

StrV(s) == [t |-> "str", v |-> s]

IntV(n) == [t |-> "int", v |-> n]

MapV(d) == [t |-> "map", v |-> d]

NullV == [t |-> "null", v |-> 0]

\* Python  k in d
Has(d, k) == \E i \in DOMAIN d : d[i][1] = k

\* Python  d[k]
Get(d, k) == d[CHOOSE i \in DOMAIN d : d[i][1] = k][2]

\* Python  d.get(k, default)
DictGet(d, k, default) == IF Has(d, k) THEN Get(d, k) ELSE default

\* Python  d[k] = v : an existing key keeps its position, a new key is appended
Set(d, k, v) ==
    IF Has(d, k)
    THEN [i \in DOMAIN d |-> IF d[i][1] = k THEN <<k, v>> ELSE d[i]]
    ELSE Append(d, <<k, v>>)

\* Python  a == b  on dicts: same keys with equal values, whatever the order
RECURSIVE DictEq(_, _)
DictEq(a, b) ==
    /\ Len(a) = Len(b)
    /\ \A i \in DOMAIN a :
          /\ Has(b, a[i][1])
          /\ LET x == a[i][2]
                 y == Get(b, a[i][1])
             IN  /\ x.t = y.t
                 /\ IF x.t = "map" THEN DictEq(x.v, y.v) ELSE x.v = y.v

\* str(value)
PyStr(val) ==
    CASE val.t = "str"  -> val.v
      [] val.t = "int"  -> StrOfInt(val.v)
      [] val.t = "null" -> <<"N","o","n","e">>

\* int(value): ValueError for a non-numeric str, TypeError for None or a dict
PyInt(val) ==
    CASE val.t = "int"  -> Return(val.v)
      [] val.t = "str"  -> IntOfStr(val.v)
      [] val.t = "null" -> Raise
      [] val.t = "map"  -> Raise

\* ------------------------------------------------------------------------
\* urllib.parse.urlparse, as far as _parse_database_url uses it
\* ------------------------------------------------------------------------

IsSchemeChar(c) == IsLower(c) \/ IsUpper(c) \/ IsDigit(c)

\* urlsplit: the scheme is the text before the first ':' when it starts with
\* a letter and holds scheme characters only; what follows that ':' is split
\* further
UrlAfterScheme(url) ==
    IF /\ Find(url, ":") > 1
       /\ IsLower(url[1]) \/ IsUpper(url[1])
       /\ \A j \in 1..(Find(url, ":") - 1) : IsSchemeChar(url[j])
    THEN SubSeq(url, Find(url, ":") + 1, Len(url))
    ELSE url

\* urlsplit: after '//' the netloc runs up to the next '/', '?' or '#'
UrlNetlocEnd(rest) ==
    IF \E i \in 3..Len(rest) : rest[i] \in {"/", "#"}
    THEN CHOOSE i \in 3..Len(rest) :
            /\ rest[i] \in {"/", "#"}
            /\ \A j \in 3..(i - 1) : rest[j] \notin {"/", "#"}
    ELSE Len(rest) + 1

\* what is left of s before a '#' fragment
BeforeFragment(s) == IF Find(s, "#") = 0 THEN s ELSE SubSeq(s, 1, Find(s, "#") - 1)

\* urlsplit on what follows the scheme: ParseResult.netloc and ParseResult.path
UrlSplit(rest) ==
    IF StartsWith(rest, <<"/","/">>)
    THEN [netloc |-> SubSeq(rest, 3, UrlNetlocEnd(rest) - 1),
          path   |-> BeforeFragment(SubSeq(rest, UrlNetlocEnd(rest), Len(rest)))]
    ELSE [netloc |-> <<>>, path |-> BeforeFragment(rest)]

urlparse(url) == UrlSplit(UrlAfterScheme(url))

\* s.partition(c)[0]
Before(s, c) == IF Find(s, c) = 0 THEN s ELSE SubSeq(s, 1, Find(s, c) - 1)

\* s.partition(c)[2]
After(s, c) == IF Find(s, c) = 0 THEN <<>> ELSE SubSeq(s, Find(s, c) + 1, Len(s))

\* netloc.rpartition('@')[2]
UrlHostInfo(netloc) == SubSeq(netloc, RFind(netloc, "@") + 1, Len(netloc))

\* netloc.rpartition('@')[0]
UrlUserInfo(netloc) == SubSeq(netloc, 1, RFind(netloc, "@") - 1)

\* ParseResult.hostname; the empty string stands for None
UrlHostname(netloc) == Lower(Before(UrlHostInfo(netloc), ":"))

PortNone == 0 - 1

\* int(port) for the text after the ':' of the host: None without a port,
\* ValueError for a port that is not a decimal number in 0..65535
PortOf(port) ==
    IF port = <<>> THEN Return(PortNone)
    ELSE IF ~IsDigits(port) THEN Raise
    ELSE IF DecimalValue(port) > 65535 THEN Raise
    ELSE Return(DecimalValue(port))

\* ParseResult.port
UrlPort(netloc) == PortOf(After(UrlHostInfo(netloc), ":"))

\* ParseResult.username; the empty string stands for None
UrlUsername(netloc) == Before(UrlUserInfo(netloc), ":")

\* ParseResult.password; the empty string stands for None
UrlPassword(netloc) == After(UrlUserInfo(netloc), ":")

\* ------------------------------------------------------------------------
\* DatabaseConfigFixer: the Normalizer
\* ------------------------------------------------------------------------

db_keys == <<<<"d","a","t","a","b","a","s","e">>, <<"d","b">>, <<"D","A","T","A","B","A","S","E","_","U","R","L">>, <<"D","B","_","U","R","L">>, <<"D","A","T","A","B","A","S","E">>>>

_get_default_config ==
    << <<<<"h","o","s","t">>, StrV(<<"l","o","c","a","l","h","o","s","t">>)>>,
       <<<<"p","o","r","t">>, IntV(5432)>>,
       <<<<"d","a","t","a","b","a","s","e">>, StrV(<<"e","m","a","i","l","d","b">>)>>,
       <<<<"u","s","e","r">>, StrV(<<"p","o","s","t","g","r","e","s">>)>>,
       <<<<"p","a","s","s","w","o","r","d">>, StrV(<<>>)>>,
       <<<<"s","s","l","m","o","d","e">>, StrV(<<"p","r","e","f","e","r">>)>>,
       <<<<"m","a","x","_","c","o","n","n","e","c","t","i","o","n","s">>, IntV(10)>>,
       <<<<"c","o","n","n","e","c","t","_","t","i","m","e","o","u","t">>, IntV(30)>> >>

\* the dict _parse_database_url builds from the attributes of parsed, or the
\* default configuration when reading parsed.port raised
UrlConfig(path, hostname, port, username, password) ==
    IF ~port.ok THEN Return(_get_default_config)
    ELSE Return(
      << <<<<"h","o","s","t">>, StrV(IF hostname # <<>> THEN hostname ELSE <<"l","o","c","a","l","h","o","s","t">>)>>,
         <<<<"p","o","r","t">>, IntV(IF port.v # PortNone /\ port.v # 0 THEN port.v ELSE 5432)>>,
         <<<<"d","a","t","a","b","a","s","e">>, StrV(IF path # <<>> THEN LStrip(path, {"/"}) ELSE <<"e","m","a","i","l","d","b">>)>>,
         <<<<"u","s","e","r">>, StrV(IF username # <<>> THEN username ELSE <<"p","o","s","t","g","r","e","s">>)>>,
         <<<<"p","a","s","s","w","o","r","d">>, StrV(password)>> >>)

ParsedConfig(parsed) ==
    UrlConfig(parsed.path, UrlHostname(parsed.netloc), UrlPort(parsed.netloc),
              UrlUsername(parsed.netloc), UrlPassword(parsed.netloc))

_parse_database_url(url) == ParsedConfig(urlparse(url))

\* the dict the shorthand branch of _parse_database_string builds
ShorthandConfig(host_port, database_name, port) ==
    IF ~port.ok THEN Raise
    ELSE Return(
      << <<<<"h","o","s","t">>, StrV(IF host_port # <<>> THEN host_port[1] ELSE <<"l","o","c","a","l","h","o","s","t">>)>>,
         <<<<"p","o","r","t">>, IntV(port.v)>>,
         <<<<"d","a","t","a","b","a","s","e">>, StrV(database_name)>>,
         <<<<"u","s","e","r">>, StrV(<<"p","o","s","t","g","r","e","s">>)>>,
         <<<<"p","a","s","s","w","o","r","d">>, StrV(<<>>)>> >>)

\* the shorthand branch, from host_port = connection_part.split(':') on
ShorthandFrom(host_port, database_name) ==
    ShorthandConfig(host_port, database_name,
                    IF Len(host_port) > 1 THEN IntOfStr(host_port[2]) ELSE Return(5432))

\* the shorthand branch, from parts = db_string.split('/') on
ShorthandParts(parts) == ShorthandFrom(Split(parts[1], ":"), parts[2])

_parse_database_string(db_string) ==
    IF Contains(db_string, <<":","/","/">>) THEN _parse_database_url(db_string)
    ELSE IF Contains(db_string, <<":">>) /\ Contains(db_string, <<"/">>) /\ Len(Split(db_string, "/")) >= 2
    THEN ShorthandParts(Split(db_string, "/"))
    ELSE Return(
          << <<<<"h","o","s","t">>, StrV(<<"l","o","c","a","l","h","o","s","t">>)>>,
             <<<<"p","o","r","t">>, IntV(5432)>>,
             <<<<"d","a","t","a","b","a","s","e">>, StrV(<<"e","m","a","i","l","d","b">>)>>,
             <<<<"u","s","e","r">>, StrV(<<"p","o","s","t","g","r","e","s">>)>>,
             <<<<"p","a","s","s","w","o","r","d">>, StrV(<<>>)>> >>)

\* the dict _validate_database_dict returns once its three int() calls returned
ValidatedConfig(db_dict, port, max_connections, connect_timeout) ==
    << <<<<"h","o","s","t">>, StrV(PyStr(DictGet(db_dict, <<"h","o","s","t">>, StrV(<<"l","o","c","a","l","h","o","s","t">>))))>>,
       <<<<"p","o","r","t">>, port>>,
       <<<<"d","a","t","a","b","a","s","e">>, StrV(PyStr(DictGet(db_dict, <<"d","a","t","a","b","a","s","e">>, StrV(<<"e","m","a","i","l","d","b">>))))>>,
       <<<<"u","s","e","r">>, StrV(PyStr(DictGet(db_dict, <<"u","s","e","r">>, StrV(<<"p","o","s","t","g","r","e","s">>))))>>,
       <<<<"p","a","s","s","w","o","r","d">>, StrV(PyStr(DictGet(db_dict, <<"p","a","s","s","w","o","r","d">>, StrV(<<>>))))>>,
       <<<<"s","s","l","m","o","d","e">>, StrV(PyStr(DictGet(db_dict, <<"s","s","l","m","o","d","e">>, StrV(<<"p","r","e","f","e","r">>))))>>,
       <<<<"m","a","x","_","c","o","n","n","e","c","t","i","o","n","s">>, max_connections>>,
       <<<<"c","o","n","n","e","c","t","_","t","i","m","e","o","u","t">>, connect_timeout>> >>

\* _validate_database_dict, given the outcomes of its three int() calls
Validated(db_dict, port, max_connections, connect_timeout) ==
    IF ~port.ok \/ ~max_connections.ok \/ ~connect_timeout.ok THEN Raise
    ELSE Return(ValidatedConfig(db_dict, IntV(port.v), IntV(max_connections.v),
                                IntV(connect_timeout.v)))

\* Validated with a failed int() replaced by the default
ValidatedLenient(db_dict, port, max_connections, connect_timeout) ==
    Return(ValidatedConfig(db_dict,
                           IntV(IF port.ok THEN port.v ELSE 5432),
                           IntV(IF max_connections.ok THEN max_connections.v ELSE 10),
                           IntV(IF connect_timeout.ok THEN connect_timeout.v ELSE 30)))

\* Validated with the port cast to str instead of int
ValidatedPortAsStr(db_dict, port, max_connections, connect_timeout) ==
    IF ~max_connections.ok \/ ~connect_timeout.ok THEN Raise
    ELSE Return(ValidatedConfig(db_dict, StrV(PyStr(DictGet(db_dict, <<"p","o","r","t">>, IntV(5432)))),
                                IntV(max_connections.v), IntV(connect_timeout.v)))

\* _validate_database_dict with the port cast to str instead of int
_validate_database_dict_port_as_str(db_dict) ==
    ValidatedPortAsStr(db_dict,
                       PyInt(DictGet(db_dict, <<"p","o","r","t">>, IntV(5432))),
                       PyInt(DictGet(db_dict, <<"m","a","x","_","c","o","n","n","e","c","t","i","o","n","s">>, IntV(10))),
                       PyInt(DictGet(db_dict, <<"c","o","n","n","e","c","t","_","t","i","m","e","o","u","t">>, IntV(30))))

\* _validate_database_dict with a failed int() replaced by the default
_validate_database_dict_lenient(db_dict) ==
    ValidatedLenient(db_dict,
                     PyInt(DictGet(db_dict, <<"p","o","r","t">>, IntV(5432))),
                     PyInt(DictGet(db_dict, <<"m","a","x","_","c","o","n","n","e","c","t","i","o","n","s">>, IntV(10))),
                     PyInt(DictGet(db_dict, <<"c","o","n","n","e","c","t","_","t","i","m","e","o","u","t">>, IntV(30))))

_validate_database_dict(db_dict) ==
    Validated(db_dict,
              PyInt(DictGet(db_dict, <<"p","o","r","t">>, IntV(5432))),
              PyInt(DictGet(db_dict, <<"m","a","x","_","c","o","n","n","e","c","t","i","o","n","s">>, IntV(10))),
              PyInt(DictGet(db_dict, <<"c","o","n","n","e","c","t","_","t","i","m","e","o","u","t">>, IntV(30))))

\* what fix_database_config makes of the value db_config of a candidate key:
\* a str is parsed, a dict is validated, both give a dict; any other value
\* stays as it is.  An exception raised here is not caught.
FixValue(db_config) ==
    IF db_config.t = "str" THEN _parse_database_string(db_config.v)
    ELSE IF db_config.t = "map" THEN _validate_database_dict(db_config.v)
    ELSE Return(db_config.v)

\* the loop of fix_database_config from db_keys[i] on; FixKey is the rest of
\* the iteration for a key that is in config, once FixValue has returned
\* (or raised, which leaves the loop)
RECURSIVE FixFrom(_, _), FixKey(_, _, _)
FixKey(config, i, fixed_config) ==
    IF ~fixed_config.ok THEN Raise
    ELSE IF Get(config, db_keys[i]).t \in {"str", "map"}
    THEN FixFrom(Set(config, db_keys[i], MapV(fixed_config.v)), i + 1)
    ELSE FixFrom(config, i + 1)

FixFrom(config, i) ==
    IF i > Len(db_keys) THEN Return(config)
    ELSE IF Has(config, db_keys[i])
    THEN FixKey(config, i, FixValue(Get(config, db_keys[i])))
    ELSE FixFrom(config, i + 1)

fix_database_config(config) == FixFrom(config, 1)

\* ------------------------------------------------------------------------
\* Files and the Format Codec
\* ------------------------------------------------------------------------
\* A path is a str.  The content of a file is one of
\*   [syn |-> "absent"]                 the path does not exist
\*   [syn |-> "garbage"]                bytes that no codec can read
\*   [syn |-> "json", doc |-> d]        the JSON text of the mapping d
\*   [syn |-> "yaml", doc |-> d]        the block-style YAML text of d
\*   [syn |-> "text", lines |-> ls]     the text lines ls (a .env file, or
\*                                      any other text file)
\* json.load and yaml.safe_load return the mapping their text denotes, with
\* its members in the order of the text.

Absent == [syn |-> "absent"]

Garbage == [syn |-> "garbage"]

JsonText(d) == [syn |-> "json", doc |-> d]

YamlText(d) == [syn |-> "yaml", doc |-> d]

Text(ls) == [syn |-> "text", lines |-> ls]

\* s.endswith(suffix)
EndsWith(s, suffix) ==
    Len(s) >= Len(suffix) /\ SubSeq(s, Len(s) - Len(suffix) + 1, Len(s)) = suffix

\* a < b for str: code point order, a proper prefix first
RECURSIVE StrLess(_, _)
StrLess(a, b) ==
    IF b = <<>> THEN FALSE
    ELSE IF a = <<>> THEN TRUE
    ELSE IF Head(a) # Head(b) THEN Ord(Head(a)) < Ord(Head(b))
    ELSE StrLess(Tail(a), Tail(b))

\* yaml.dump writes the keys of every mapping in sorted order; m is the
\* position of the least key of d
RECURSIVE YamlSorted(_), YamlSortedFrom(_, _)
YamlSortedFrom(d, m) ==
    << <<d[m][1], IF d[m][2].t = "map" THEN MapV(YamlSorted(d[m][2].v)) ELSE d[m][2]>> >>
       \o YamlSorted(SubSeq(d, 1, m - 1) \o SubSeq(d, m + 1, Len(d)))

YamlSorted(d) ==
    IF d = <<>> THEN <<>>
    ELSE YamlSortedFrom(d, CHOOSE i \in DOMAIN d :
                              \A j \in DOMAIN d : j = i \/ StrLess(d[i][1], d[j][1]))

supported_formats == <<<<".","j","s","o","n">>, <<".","y","a","m","l">>, <<".","y","m","l">>, <<".","e","n","v">>>>

config_names == <<<<"c","o","n","f","i","g">>, <<"s","e","t","t","i","n","g","s">>, <<"d","a","t","a","b","a","s","e">>, <<"d","b">>, <<"a","p","p">>, <<"a","p","p","l","i","c","a","t","i","o","n">>, <<".","e","n","v">>>>

\* os.path.exists
Exists(files, file_path) == file_path \in DOMAIN files /\ files[file_path].syn # "absent"

\* find_config_files: every name with every extension, in list order, that exists
RECURSIVE FindFrom(_, _, _)
FindFrom(files, n, e) ==
    IF n > Len(config_names) THEN <<>>
    ELSE IF e > Len(supported_formats) THEN FindFrom(files, n + 1, 1)
    ELSE LET file_path == config_names[n] \o supported_formats[e]
         IN  (IF Exists(files, file_path) THEN <<file_path>> ELSE <<>>)
                \o FindFrom(files, n, e + 1)

find_config_files(files) == FindFrom(files, 1, 1)

RECURSIVE _parse_env_file(_)
_parse_env_file(lines) ==
    IF lines = <<>> THEN <<>>
    ELSE LET config == _parse_env_file(SubSeq(lines, 1, Len(lines) - 1))
             line   == Strip(lines[Len(lines)], Whitespace)
             eq     == Find(line, "=")
             key    == SubSeq(line, 1, eq - 1)
             value  == SubSeq(line, eq + 1, Len(line))
         IN  IF line # <<>> /\ ~StartsWith(line, <<"#">>) /\ eq # 0
             THEN Set(config, Strip(key, Whitespace),
                      StrV(Strip(Strip(value, Whitespace), {"\"", "'"})))
             ELSE config

\* load_config: the configuration, or {} after a logged failure.  failed tells
\* the two apart; the code itself returns config only.
load_config(file_path, content) ==
    IF EndsWith(file_path, <<".","j","s","o","n">>)
    THEN IF content.syn = "json" THEN [failed |-> FALSE, config |-> content.doc]
         ELSE [failed |-> TRUE, config |-> <<>>]
    ELSE IF EndsWith(file_path, <<".","y","a","m","l">>) \/ EndsWith(file_path, <<".","y","m","l">>)
    THEN IF content.syn \in {"yaml", "json"} THEN [failed |-> FALSE, config |-> content.doc]
         ELSE [failed |-> TRUE, config |-> <<>>]
    ELSE IF EndsWith(file_path, <<".","e","n","v">>)
    THEN IF content.syn = "text"
         THEN [failed |-> FALSE, config |-> _parse_env_file(content.lines)]
         ELSE [failed |-> TRUE, config |-> <<>>]
    ELSE [failed |-> TRUE, config |-> <<>>]

\* the lines _save_env_file writes for one entry of config
EnvLinesOf(key, value) ==
    IF value.t = "map"
    THEN [i \in DOMAIN value.v |->
            Upper(key) \o <<"_">> \o Upper(value.v[i][1]) \o <<"=">> \o PyStr(value.v[i][2])]
    ELSE <<Upper(key) \o <<"=">> \o PyStr(value)>>

RECURSIVE _save_env_file(_)
_save_env_file(config) ==
    IF config = <<>> THEN <<>>
    ELSE EnvLinesOf(config[1][1], config[1][2]) \o _save_env_file(Tail(config))

\* what save_config writes into file_path between open(.., 'w') and close
Serialized(file_path, config) ==
    IF EndsWith(file_path, <<".","j","s","o","n">>) THEN JsonText(config)
    ELSE IF EndsWith(file_path, <<".","y","a","m","l">>) \/ EndsWith(file_path, <<".","y","m","l">>)
    THEN YamlText(YamlSorted(config))
    ELSE IF EndsWith(file_path, <<".","e","n","v">>) THEN Text(_save_env_file(config))
    ELSE Text(<<>>)

backup_path(file_path) == file_path \o <<".","b","a","c","k","u","p">>

\* the outcomes of the file operations of one save_config call
IOOutcomes == {"ok", "copy_fails", "open_fails"}

\* save_config: the files afterwards and the value returned.  io chooses
\* whether shutil.copy2 or open(.., 'w') raises; the except clause returns
\* False with whatever was done before.
save_config(files, file_path, config, io) ==
    LET copied == IF Exists(files, file_path)
                  THEN [files EXCEPT ![backup_path(file_path)] = files[file_path]]
                  ELSE files
    IN  IF io = "copy_fails" /\ Exists(files, file_path)
        THEN [files |-> files, ok |-> FALSE]
        ELSE IF io = "open_fails"
        THEN [files |-> copied, ok |-> FALSE]
        ELSE [files |-> [copied EXCEPT ![file_path] = Serialized(file_path, config)],
              ok |-> TRUE]

\* ------------------------------------------------------------------------
\* The inputs: the files of the directory before the first run
\* ------------------------------------------------------------------------

\* how many times the tool is run
MaxRuns == 2

CanonicalUnordered ==
    << <<<<"s","s","l","m","o","d","e">>, StrV(<<"r","e","q","u","i","r","e">>)>>,
       <<<<"p","o","r","t">>, IntV(5433)>>,
       <<<<"h","o","s","t">>, StrV(<<"d","b",".","e","x","a","m","p","l","e",".","c","o","m">>)>>,
       <<<<"c","o","n","n","e","c","t","_","t","i","m","e","o","u","t">>, IntV(5)>>,
       <<<<"d","a","t","a","b","a","s","e">>, StrV(<<"s","a","l","e","s">>)>>,
       <<<<"p","a","s","s","w","o","r","d">>, StrV(<<"s","e","c","r","e","t">>)>>,
       <<<<"u","s","e","r">>, StrV(<<"a","l","i","c","e">>)>>,
       <<<<"m","a","x","_","c","o","n","n","e","c","t","i","o","n","s">>, IntV(20)>> >>

UrlDoc == << <<<<"d","a","t","a","b","a","s","e">>, StrV(<<"p","o","s","t","g","r","e","s",":","/","/","u",":","p","@","h",":","1","/","d">>)>> >>

CanonicalDoc == << <<<<"n","a","m","e">>, StrV(<<"a","p","p">>)>>, <<<<"d","a","t","a","b","a","s","e">>, MapV(CanonicalUnordered)>> >>

\* what config.json holds when it is the only configuration file
JsonInputs ==
    << Absent,
       Garbage,
       JsonText(<<>>),
       JsonText(<< <<<<"n","a","m","e">>, StrV(<<"a","p","p">>)>>, <<<<"d","a","t","a","b","a","s","e">>, IntV(5)>>, <<<<"D","A","T","A","B","A","S","E">>, NullV>> >>),
       JsonText(UrlDoc),
       JsonText(<< <<<<"d","a","t","a","b","a","s","e">>, StrV(<<"l","o","c","a","l","h","o","s","t",":","5","4","3","3","/","m","y","d","b">>)>> >>),
       JsonText(<< <<<<"d","b">>, StrV(<<":","5","4","3","3","/","m","y","d","b">>)>> >>),
       JsonText(<< <<<<"d","a","t","a","b","a","s","e">>, StrV(<<"j","u","s","t","a","n","a","m","e">>)>>, <<<<"d","e","b","u","g">>, IntV(1)>> >>),
       JsonText(<< <<<<"D","A","T","A","B","A","S","E","_","U","R","L">>, StrV(<<"p","o","s","t","g","r","e","s",":","/","/","h",":","x","/","d">>)>> >>),
       JsonText(<< <<<<"d","a","t","a","b","a","s","e">>, MapV(<< <<<<"h","o","s","t">>, StrV(<<"x">>)>>, <<<<"p","o","r","t">>, StrV(<<"5","4","3","2">>)>> >>)>> >>),
       JsonText(CanonicalDoc),
       JsonText(<< <<<<"D","A","T","A","B","A","S","E">>, MapV(_get_default_config)>> >>),
       JsonText(<< <<<<"d","b">>, MapV(<< <<<<"h","o","s","t">>, NullV>>, <<<<"p","o","r","t">>, StrV(<<"a","b","c">>)>> >>)>> >>),
       JsonText(<< <<<<"D","B","_","U","R","L">>, StrV(<<"h",":","x","/","d">>)>> >>) >>

\* what config.json holds next to other configuration files
JsonBesideOthers == << Absent, JsonText(UrlDoc), JsonText(CanonicalDoc) >>

YamlInputs ==
    << Garbage,
       YamlText(CanonicalDoc),
       YamlText(<< <<<<"d","b">>, StrV(<<"h",":","1","/","d">>)>>, <<<<"d","a","t","a","b","a","s","e">>, MapV(<< <<<<"p","o","r","t">>, StrV(<<"a","b","c">>)>> >>)>> >>),
       YamlText(<< <<<<"d","a","t","a","b","a","s","e">>, MapV(<< <<<<"m","a","x","_","c","o","n","n","e","c","t","i","o","n","s">>, NullV>> >>)>> >>),
       YamlText(<< <<<<"D","B","_","U","R","L">>, StrV(<<"p","o","s","t","g","r","e","s",":","/","/","u","@","h","/","d">>)>> >>) >>

EnvInputs ==
    << Absent,
       Garbage,
       Text(<< <<"#"," ","s","e","t","t","i","n","g","s">>, <<"N","A","M","E","=","a","p","p">>, <<"n","o","e","q","u","a","l","s">>,
               <<"D","A","T","A","B","A","S","E","_","U","R","L","=","\"","p","o","s","t","g","r","e","s",":","/","/","u",":","p","@","h",":","1","/","d","\"">>, <<" ","D","E","B","U","G"," ","="," ","1"," ">> >>) >>

NotesTxt == Text(<< <<"d","b","=","h",":","1","/","d">> >>)

StaleBackup == Text(<< <<"o","l","d">> >>)

Directory(json, yaml, env) ==
    [p \in {<<"c","o","n","f","i","g",".","j","s","o","n">>, <<"c","o","n","f","i","g",".","y","a","m","l">>, <<"c","o","n","f","i","g",".","e","n","v">>, <<"n","o","t","e","s",".","t","x","t">>,
            <<"c","o","n","f","i","g",".","j","s","o","n",".","b","a","c","k","u","p">>, <<"c","o","n","f","i","g",".","y","a","m","l",".","b","a","c","k","u","p">>, <<"c","o","n","f","i","g",".","e","n","v",".","b","a","c","k","u","p">>,
            <<"n","o","t","e","s",".","t","x","t",".","b","a","c","k","u","p">>} |->
        CASE p = <<"c","o","n","f","i","g",".","j","s","o","n">> -> json
          [] p = <<"c","o","n","f","i","g",".","y","a","m","l">> -> yaml
          [] p = <<"c","o","n","f","i","g",".","e","n","v">> -> env
          [] p = <<"n","o","t","e","s",".","t","x","t">> -> NotesTxt
          [] p = <<"c","o","n","f","i","g",".","j","s","o","n",".","b","a","c","k","u","p">> -> StaleBackup
          [] OTHER -> Absent]

\* the paths --file is given
FileArgs == {<<"c","o","n","f","i","g",".","j","s","o","n">>, <<"c","o","n","f","i","g",".","y","a","m","l">>, <<"c","o","n","f","i","g",".","e","n","v">>, <<"n","o","t","e","s",".","t","x","t">>}

\* ------------------------------------------------------------------------
\* The state
\* ------------------------------------------------------------------------

VARIABLES
    fs,             \* the files: path -> content
    pc,             \* "idle", "scan" (in the loop of fix_all_configs), "exited", "crashed"
    mode,           \* args.file given ("file") or not ("scan")
    dry_run,        \* args.dry_run
    config_files,   \* the files fix_all_configs has still to process
    fixed_count,    \* fixed_count of fix_all_configs
    exit_code,      \* the exit status of the last run
    runs,           \* the number of runs started
    fs0,            \* history: the files when the current run started
    last,           \* history: what the last processing of a file did
    fixed_in_run,   \* history: <<path, content>> of the files this run has fixed
    prev_fixed      \* history: the paths whose last processing fixed them

vars == <<fs, pc, mode, dry_run, config_files, fixed_count, exit_code, runs,
          fs0, last, fixed_in_run, prev_fixed>>

NoLast ==
    [path |-> <<>>, pre |-> Absent, pre_backup |-> Absent, failed |-> FALSE,
     loaded |-> <<>>, raised |-> FALSE, fixed |-> <<>>, changed |-> FALSE,
     save_called |-> FALSE, saved |-> FALSE, report |-> "none", again |-> FALSE]

Init ==
    /\ \/ \E j \in DOMAIN JsonInputs : fs = Directory(JsonInputs[j], Absent, Absent)
       \/ \E j \in DOMAIN JsonBesideOthers, y \in DOMAIN YamlInputs, e \in DOMAIN EnvInputs :
             fs = Directory(JsonBesideOthers[j], YamlInputs[y], EnvInputs[e])
    /\ pc = "idle"
    /\ mode = "scan"
    /\ dry_run = FALSE
    /\ config_files = <<>>
    /\ fixed_count = 0
    /\ exit_code = 0
    /\ runs = 0
    /\ fs0 = fs
    /\ last = NoLast
    /\ fixed_in_run = <<>>
    /\ prev_fixed = {}

\* ------------------------------------------------------------------------
\* main() without --file: fix_all_configs
\* ------------------------------------------------------------------------

\* main() up to the first iteration of the loop of fix_all_configs.  args.dry_run
\* is logged and not looked at again.
MainScan(dry) ==
    /\ pc # "scan"
    /\ runs < MaxRuns
    /\ runs' = runs + 1
    /\ mode' = "scan"
    /\ dry_run' = dry
    /\ fs0' = fs
    /\ last' = NoLast
    /\ fixed_in_run' = <<>>
    /\ fixed_count' = 0
    /\ config_files' = find_config_files(fs)
    /\ IF config_files' = <<>>
       THEN pc' = "exited" /\ exit_code' = 1
       ELSE pc' = "scan" /\ exit_code' = exit_code
    /\ UNCHANGED <<fs, prev_fixed>>

\* one iteration of the loop of fix_all_configs.  The values the iteration
\* computes are bound once each, in the order of the code: file_path,
\* config = load_config(..), fixed_config = fix_database_config(..) and the
\* outcome of save_config(..), which is used only when the code calls it.
ScanStep(io) ==
    /\ pc = "scan"
    /\ config_files # <<>>
    /\ \E file_path \in {Head(config_files)} :
       \E loaded \in {load_config(file_path, fs[file_path])} :
       \E fixed \in {fix_database_config(loaded.config)} :
       \E save \in {save_config(fs, file_path, fixed.v, io)} :
          LET seen == [NoLast EXCEPT !.path = file_path, !.pre = fs[file_path],
                                     !.pre_backup = fs[backup_path(file_path)],
                                     !.failed = loaded.failed, !.loaded = loaded.config,
                                     !.again = file_path \in prev_fixed]
          IN  IF loaded.config = <<>>
              THEN /\ last' = [seen EXCEPT !.report = "skipped"]
                   /\ config_files' = Tail(config_files)
                   /\ prev_fixed' = prev_fixed \ {file_path}
                   /\ UNCHANGED <<fs, pc, fixed_count, exit_code, fixed_in_run>>
              ELSE IF ~fixed.ok
              THEN /\ last' = [seen EXCEPT !.raised = TRUE, !.report = "raised"]
                   /\ pc' = "crashed"
                   /\ exit_code' = 1
                   /\ prev_fixed' = prev_fixed \ {file_path}
                   /\ UNCHANGED <<fs, config_files, fixed_count, fixed_in_run>>
              ELSE IF ~DictEq(fixed.v, loaded.config)
              THEN /\ fs' = save.files
                   /\ last' = [seen EXCEPT !.fixed = fixed.v, !.changed = TRUE,
                                           !.save_called = TRUE, !.saved = save.ok,
                                           !.report = IF save.ok THEN "fixed"
                                                      ELSE "save_failed"]
                   /\ fixed_count' = IF save.ok THEN fixed_count + 1 ELSE fixed_count
                   /\ fixed_in_run' =
                         IF save.ok
                         THEN Append(fixed_in_run, <<file_path, save.files[file_path]>>)
                         ELSE fixed_in_run
                   /\ prev_fixed' = IF save.ok THEN prev_fixed \cup {file_path}
                                    ELSE prev_fixed \ {file_path}
                   /\ config_files' = Tail(config_files)
                   /\ UNCHANGED <<pc, exit_code>>
              ELSE /\ last' = [seen EXCEPT !.fixed = fixed.v, !.report = "nofix"]
                   /\ config_files' = Tail(config_files)
                   /\ prev_fixed' = prev_fixed \ {file_path}
                   /\ UNCHANGED <<fs, pc, fixed_count, exit_code, fixed_in_run>>
    /\ UNCHANGED <<mode, dry_run, runs, fs0>>

\* the end of fix_all_configs and sys.exit in main()
ScanExit ==
    /\ pc = "scan"
    /\ config_files = <<>>
    /\ pc' = "exited"
    /\ exit_code' = IF fixed_count > 0 THEN 0 ELSE 1
    /\ UNCHANGED <<fs, mode, dry_run, config_files, fixed_count, runs, fs0, last,
                   fixed_in_run, prev_fixed>>

\* ------------------------------------------------------------------------
\* main() with --file
\* ------------------------------------------------------------------------

\* main() with --file, whole.  The values are bound as in ScanStep.
MainFile(file_path, dry, io) ==
    /\ pc # "scan"
    /\ runs < MaxRuns
    /\ runs' = runs + 1
    /\ mode' = "file"
    /\ dry_run' = dry
    /\ fs0' = fs
    /\ fixed_in_run' = <<>>
    /\ \E loaded \in {load_config(file_path, fs[file_path])} :
       \E fixed \in {fix_database_config(loaded.config)} :
       \E save \in {save_config(fs, file_path, fixed.v, io)} :
          LET seen == [NoLast EXCEPT !.path = file_path, !.pre = fs[file_path],
                                     !.pre_backup = fs[backup_path(file_path)],
                                     !.again = file_path \in prev_fixed]
              read == [seen EXCEPT !.failed = loaded.failed, !.loaded = loaded.config]
          IN  IF ~Exists(fs, file_path)
              THEN /\ last' = [seen EXCEPT !.report = "missing"]
                   /\ pc' = "exited"
                   /\ exit_code' = 1
                   /\ UNCHANGED <<fs, prev_fixed>>
              ELSE IF ~fixed.ok
              THEN /\ last' = [read EXCEPT !.raised = TRUE, !.report = "raised"]
                   /\ pc' = "crashed"
                   /\ exit_code' = 1
                   /\ prev_fixed' = prev_fixed \ {file_path}
                   /\ UNCHANGED fs
              ELSE IF dry
              THEN /\ last' = [read EXCEPT !.fixed = fixed.v,
                                           !.changed = ~DictEq(fixed.v, loaded.config),
                                           !.report = "dry_run"]
                   /\ pc' = "exited"
                   /\ exit_code' = 0
                   /\ prev_fixed' = prev_fixed \ {file_path}
                   /\ UNCHANGED fs
              ELSE /\ fs' = save.files
                   /\ last' = [read EXCEPT !.fixed = fixed.v,
                                           !.changed = ~DictEq(fixed.v, loaded.config),
                                           !.save_called = TRUE, !.saved = save.ok,
                                           !.report = "done"]
                   /\ pc' = "exited"
                   /\ exit_code' = 0
                   /\ prev_fixed' = IF save.ok /\ ~DictEq(fixed.v, loaded.config)
                                    THEN prev_fixed \cup {file_path}
                                    ELSE prev_fixed \ {file_path}
    /\ UNCHANGED <<config_files, fixed_count>>

Next ==
    \/ \E dry \in BOOLEAN : MainScan(dry)
    \/ \E io \in IOOutcomes : ScanStep(io)
    \/ ScanExit
    \/ \E file_path \in FileArgs, dry \in BOOLEAN, io \in IOOutcomes :
          MainFile(file_path, dry, io)

Spec == Init /\ [][Next]_vars

\* ------------------------------------------------------------------------
\* Properties
\* ------------------------------------------------------------------------

CanonicalKeys ==
    <<<<"h","o","s","t">>, <<"p","o","r","t">>, <<"d","a","t","a","b","a","s","e">>, <<"u","s","e","r">>, <<"p","a","s","s","w","o","r","d">>, <<"s","s","l","m","o","d","e">>, <<"m","a","x","_","c","o","n","n","e","c","t","i","o","n","s">>,
      <<"c","o","n","n","e","c","t","_","t","i","m","e","o","u","t">>>>

CanonicalType(k) ==
    IF k \in {<<"p","o","r","t">>, <<"m","a","x","_","c","o","n","n","e","c","t","i","o","n","s">>, <<"c","o","n","n","e","c","t","_","t","i","m","e","o","u","t">>} THEN "int" ELSE "str"

\* val is a mapping with the eight canonical keys, none of them null
HasEightKeys(val) ==
    /\ val.t = "map"
    /\ \A i \in DOMAIN CanonicalKeys :
          Has(val.v, CanonicalKeys[i]) /\ Get(val.v, CanonicalKeys[i]).t # "null"

\* val is a Canonical Database Config: exactly the eight keys, each of its type
IsCanonicalConfig(val) ==
    /\ HasEightKeys(val)
    /\ Len(val.v) = Len(CanonicalKeys)
    /\ \A i \in DOMAIN CanonicalKeys :
          Get(val.v, CanonicalKeys[i]).t = CanonicalType(CanonicalKeys[i])

IsUrlForm(s) == Contains(s, <<":","/","/">>)

IsShorthandForm(s) == ~IsUrlForm(s) /\ Contains(s, <<":">>) /\ Contains(s, <<"/">>)

\* the last step loaded a file and fix_database_config returned for it
Normalized == last.report \in {"fixed", "save_failed", "nofix", "dry_run", "done"}

\* the candidate keys of the document the last step loaded
FieldsOfLast == {i \in DOMAIN db_keys : Has(last.loaded, db_keys[i])}

\* C1: when the previous processing of a file fixed it, a scan that processes
\* the file again leaves its content alone and reports that no fix is needed.
C1_SecondRunNoChange ==
    (mode = "scan" /\ last.report # "none" /\ last.again)
        => (fs[last.path] = last.pre /\ last.report = "nofix")

\* C2: under --dry-run no file and no backup is written, in scan mode and in
\* --file mode: the files are those the run started with.
C2_DryRunWritesNothing == dry_run => fs = fs0

\* C3: a file whose load failed is skipped, in either mode: the run does not
\* crash, and the file and its backup are what they were.
C3_LoadFailureLeavesFile ==
    (last.report # "none" /\ last.failed)
        => /\ pc # "crashed"
           /\ fs[last.path] = last.pre
           /\ fs[backup_path(last.path)] = last.pre_backup

\* C4: after a successful save the backup is the content the file had before
\* the save and the file holds the normalized document; for config.json with
\* a URL string under database, the file then holds a Canonical Database
\* Config under database.
C4_BackupThenWrite ==
    last.saved
        => /\ fs[backup_path(last.path)] = last.pre
           /\ fs[last.path] = Serialized(last.path, last.fixed)
           /\ (/\ last.path = <<"c","o","n","f","i","g",".","j","s","o","n">>
               /\ Has(last.loaded, <<"d","a","t","a","b","a","s","e">>)
               /\ Get(last.loaded, <<"d","a","t","a","b","a","s","e">>).t = "str"
               /\ IsUrlForm(Get(last.loaded, <<"d","a","t","a","b","a","s","e">>).v))
                 => /\ fs[last.path].syn = "json"
                    /\ IsCanonicalConfig(Get(fs[last.path].doc, <<"d","a","t","a","b","a","s","e">>))

\* C5: whatever fix_database_config writes into a candidate field (the field
\* was a string or a mapping) has the eight canonical keys, none null.
C5_NormalizerWritesEightKeys ==
    Normalized
        => \A i \in FieldsOfLast :
              Get(last.loaded, db_keys[i]).t \in {"str", "map"}
                 => HasEightKeys(Get(last.fixed, db_keys[i]))

\* C6: a string that is neither URL form nor shorthand form becomes the full
\* default configuration, all eight keys.
C6_UnrecognizedGivesDefault ==
    Normalized
        => \A i \in FieldsOfLast :
              LET val == Get(last.loaded, db_keys[i])
              IN  (val.t = "str" /\ ~IsUrlForm(val.v) /\ ~IsShorthandForm(val.v))
                     => /\ Get(last.fixed, db_keys[i]).t = "map"
                        /\ DictEq(Get(last.fixed, db_keys[i]).v, _get_default_config)

\* every candidate field of the document is a Canonical Database Config, and
\* there is one
AllCanonical(doc) ==
    /\ \E i \in DOMAIN db_keys : Has(doc, db_keys[i])
    /\ \A i \in DOMAIN db_keys :
          Has(doc, db_keys[i]) => IsCanonicalConfig(Get(doc, db_keys[i]))

\* C7: for a document whose database field is already canonical
\* fix_database_config returns an equal document, and a scan reports that no
\* fix is needed and leaves the file and its backup as they were.
C7_CanonicalIsFixpoint ==
    (last.report # "none" /\ AllCanonical(last.loaded))
        => /\ Normalized
           /\ DictEq(last.fixed, last.loaded)
           /\ mode = "scan"
                => /\ last.report = "nofix"
                   /\ fs[last.path] = last.pre
                   /\ fs[backup_path(last.path)] = last.pre_backup

\* a scan has just found config.yaml canonical, its keys not in sorted order
C7_Witness ==
    /\ mode = "scan"
    /\ last.path = <<"c","o","n","f","i","g",".","y","a","m","l">>
    /\ AllCanonical(last.loaded)
    /\ last.report = "nofix"
    /\ fs[last.path] = YamlText(CanonicalDoc)

\* C8: save_config is called, and so the backup written, only when the
\* normalized document differs from the loaded one, in either mode.
C8_SavedOnlyIfChanged ==
    (last.save_called \/ (last.report # "none" /\ fs[backup_path(last.path)] # last.pre_backup))
        => last.changed

\* int() raises for the value
NotAnInt(val) ==
    \/ val.t \in {"null", "map"}
    \/ val.t = "str" /\ ~IsDigits(Strip(val.v, Whitespace))

\* a candidate field of the document is a mapping with a key that int() rejects
MappingCoercionFails(doc) ==
    \E i \in DOMAIN db_keys :
       /\ Has(doc, db_keys[i])
       /\ Get(doc, db_keys[i]).t = "map"
       /\ \E k \in {<<"p","o","r","t">>, <<"m","a","x","_","c","o","n","n","e","c","t","i","o","n","s">>, <<"c","o","n","n","e","c","t","_","t","i","m","e","o","u","t">>} :
             /\ Has(Get(doc, db_keys[i]).v, k)
             /\ NotAnInt(Get(Get(doc, db_keys[i]).v, k))

\* C9: in scan mode a mapping that cannot be coerced ends the run with an
\* uncaught exception: the failing file and the files after it are as they
\* were when the run started, with their backups, and the files the run had
\* fixed before keep what it wrote.
C9_CoercionFailureAbortsScan ==
    (mode = "scan" /\ last.report # "none" /\ MappingCoercionFails(last.loaded))
        => /\ pc = "crashed"
           /\ last.raised
           /\ config_files # <<>>
           /\ Head(config_files) = last.path
           /\ \A i \in DOMAIN config_files :
                 /\ fs[config_files[i]] = fs0[config_files[i]]
                 /\ fs[backup_path(config_files[i])] = fs0[backup_path(config_files[i])]
           /\ \A i \in DOMAIN fixed_in_run :
                 /\ fs[fixed_in_run[i][1]] = fixed_in_run[i][2]
                 /\ fs[fixed_in_run[i][1]] # fs0[fixed_in_run[i][1]]
                 /\ fs[backup_path(fixed_in_run[i][1])] = fs0[fixed_in_run[i][1]]

\* a scan fixed config.json, then crashed on config.yaml, and config.env,
\* which holds a URL string, was not reached
C9_Witness ==
    /\ mode = "scan"
    /\ pc = "crashed"
    /\ MappingCoercionFails(last.loaded)
    /\ last.path = <<"c","o","n","f","i","g",".","y","a","m","l">>
    /\ Len(fixed_in_run) = 1
    /\ fixed_in_run[1][1] = <<"c","o","n","f","i","g",".","j","s","o","n">>
    /\ config_files = <<<<"c","o","n","f","i","g",".","y","a","m","l">>, <<"c","o","n","f","i","g",".","e","n","v">>>>
    /\ fs[<<"c","o","n","f","i","g",".","e","n","v">>].syn = "text"
    /\ fs[<<"c","o","n","f","i","g",".","e","n","v",".","b","a","c","k","u","p">>] = Absent

\* what the shorthand rule makes of s
ShorthandHost(s) ==
    LET host == Split(Split(s, "/")[1], ":")[1]
    IN  IF host = <<>> THEN <<"l","o","c","a","l","h","o","s","t">> ELSE host

ShorthandHasPort(s) == Len(Split(Split(s, "/")[1], ":")) > 1

ShorthandPort(s) ==
    IF ShorthandHasPort(s) THEN DecimalValue(Split(Split(s, "/")[1], ":")[2]) ELSE 5432

\* C10: a shorthand string gives host (localhost when empty), the port as an
\* integer (5432 when absent), the second segment as database, user postgres
\* and an empty password.
C10_Shorthand ==
    Normalized
        => \A i \in FieldsOfLast :
              LET val == Get(last.loaded, db_keys[i])
                  out == Get(last.fixed, db_keys[i])
              IN  (val.t = "str" /\ IsShorthandForm(val.v))
                     => /\ out.t = "map"
                        /\ Get(out.v, <<"h","o","s","t">>) = StrV(ShorthandHost(val.v))
                        /\ Get(out.v, <<"p","o","r","t">>) = IntV(ShorthandPort(val.v))
                        /\ Get(out.v, <<"d","a","t","a","b","a","s","e">>) = StrV(Split(val.v, "/")[2])
                        /\ Get(out.v, <<"u","s","e","r">>) = StrV(<<"p","o","s","t","g","r","e","s">>)
                        /\ Get(out.v, <<"p","a","s","s","w","o","r","d">>) = StrV(<<>>)

====
